---- MODULE Spec2Model ----
(***************************************************************************)
(* The generation-request lifecycle of the AI style image generator:       *)
(* the `generations` table with its row-level policies, the generate-image *)
(* edge function (Orchestrator), the submission form (handleGenerate) and  *)
(* the gallery (fetchGenerations, handleDelete).                           *)
(***************************************************************************)
EXTENDS Naturals, Sequences, FiniteSets

VARIABLES
    table,       \* public.generations: id -> row
    nextId,      \* next generation id (gen_random_uuid: ids are never reused)
    form,        \* GenerationForm state per user: prompt, loading, the
                 \* uploaded image and file name, the file of the file
                 \* input, and the FileReader reads in flight
    toast,       \* the last toast shown to each user
    handlers,    \* handleGenerate calls: sequence of handler records
    invs,        \* generate-image invocations: sequence of invocation records
    refreshKey,  \* Index.refreshKey per user
    view,        \* GenerationGallery.generations per user
    galLoading,  \* GenerationGallery.loading per user
    fetches,     \* fetchGenerations calls in flight
    deletes,     \* handleDelete calls in flight
    auth         \* the Auth page: its fields, mode, loading flag and last toast

vars == <<table, nextId, form, toast, handlers, invs, refreshKey, view,
          galLoading, fetches, deletes, auth>>

---------------------------------------------------------------------------
(* Bounds of the model *)
MaxGens == 2
MaxSubmits == 2
MaxInvocations == 2
MaxRefresh == 1
MaxDeletes == 2
MaxReads == 1

Users == {"A", "B"}
(* the user who has the page open: the form and the gallery are theirs;    *)
(* every user, the other one included, calls the function and the API      *)
(* directly                                                                *)
Visitors == {"A"}
NoUser == "null"

(* image_url TEXT is nullable *)
NULL == <<>>

(* the data URI an invocation extracts from the gateway's response: each    *)
(* invocation gets an image of its own                                      *)
ImageOf(i) == <<i>>

(* .limit(20) of fetchGenerations *)
ListLimit == 20

(* Prompts are sequences of characters; " " is whitespace. *)
Prompts == {<<>>, <<" ">>, <<" ", "a", " ">>}

IsSpace(c) == c = " "

RECURSIVE TrimStart(_)
TrimStart(s) ==
    IF s = <<>> THEN <<>>
    ELSE IF IsSpace(Head(s)) THEN TrimStart(Tail(s)) ELSE s

RECURSIVE TrimEnd(_)
TrimEnd(s) ==
    IF s = <<>> THEN <<>>
    ELSE IF IsSpace(s[Len(s)]) THEN TrimEnd(SubSeq(s, 1, Len(s) - 1)) ELSE s

(* String.prototype.trim *)
Trim(s) == TrimEnd(TrimStart(s))

(* the mutant of PromptOk: the prompt is tested without trimming *)
PromptOkNoTrim(p) == p # <<>>

(* if (!prompt.trim()) { toast.error(...); return; } *)
PromptOk(p) == Trim(p) # <<>>

(* The files a user can pick in the file input: one of each accepted MIME  *)
(* type, one of them of exactly 10 MiB, a GIF, and a PNG one byte larger   *)
(* than 10 MiB.                                                            *)
Files ==
    {[name |-> "a.jpeg", type |-> "image/jpeg", size |-> 10 * 1024 * 1024],
     [name |-> "b.jpg", type |-> "image/jpg", size |-> 1],
     [name |-> "c.png", type |-> "image/png", size |-> 1],
     [name |-> "d.webp", type |-> "image/webp", size |-> 1],
     [name |-> "e.gif", type |-> "image/gif", size |-> 1],
     [name |-> "f.png", type |-> "image/png", size |-> 10 * 1024 * 1024 + 1]}

(* the file input before a file is picked *)
NoFile == [name |-> "", type |-> "", size |-> 0]

(* const validTypes = ['image/jpeg', 'image/jpg', 'image/png', 'image/webp'] *)
ValidTypes == {"image/jpeg", "image/jpg", "image/png", "image/webp"}

(* the mutant of TooBig: a file of exactly 10 MiB is rejected as well *)
TooBigFromMax(file) == file.size >= 10 * 1024 * 1024

(* const maxSize = 10 * 1024 * 1024; if (file.size > maxSize) *)
TooBig(file) == file.size > 10 * 1024 * 1024

(* reader.result of readAsDataURL(file): a data URL of the file's content *)
DataUrl(file) == <<file.name>>

(* useState(""), useState(false), useState(null), useState(null); no file  *)
(* picked and no read in flight                                            *)
FormMounted ==
    [prompt |-> <<>>, loading |-> FALSE, uploadedImage |-> NULL,
     uploadedFileName |-> NULL, file |-> NoFile, reads |-> {}]

---------------------------------------------------------------------------
(* Row-level security of public.generations *)

(* the mutant of PolicyCmds: an UPDATE policy for the owner exists as well *)
PolicyCmdsWithUpdate == {"SELECT", "INSERT", "DELETE", "UPDATE"}

(* The commands for which a policy is created; with RLS enabled, a command *)
(* without a policy is denied for every row.                                *)
PolicyCmds == {"SELECT", "INSERT", "DELETE"}

(* the mutant of RlsAllows: the policy does not compare the owner *)
RlsAllowsAnyone(cmd, uid, row) == cmd \in PolicyCmds

(* USING / WITH CHECK (auth.uid() = user_id) *)
RlsAllows(cmd, uid, row) == cmd \in PolicyCmds /\ uid = row.user_id

(* the ids a command of user uid that names id `id` acts on *)
RlsTargets(cmd, uid, id) ==
    {i \in DOMAIN table : i = id /\ RlsAllows(cmd, uid, table[i])}

(* a row as a select returns it *)
ViewRow(n) ==
    [id |-> n, user_id |-> table[n].user_id, prompt |-> table[n].prompt,
     image_url |-> table[n].image_url, status |-> table[n].status]

RECURSIVE SelectFrom(_, _)
SelectFrom(uid, n) ==
    IF n = 0 THEN <<>>
    ELSE IF n \in DOMAIN table /\ RlsAllows("SELECT", uid, table[n])
         THEN <<ViewRow(n)>> \o SelectFrom(uid, n - 1)
         ELSE SelectFrom(uid, n - 1)

Take(s, k) == IF Len(s) <= k THEN s ELSE SubSeq(s, 1, k)

(* select("*").order("created_at", {ascending: false}).limit(20), as uid *)
Select(uid) == Take(SelectFrom(uid, nextId - 1), ListLimit)

(* the mutant of RlsDelete: the delete leaves the row in the table *)
RlsDeleteKeeps(uid, id) == table

(* delete().eq("id", id), as uid *)
RlsDelete(uid, id) ==
    [i \in DOMAIN table \ RlsTargets("DELETE", uid, id) |-> table[i]]

(* the mutant of RlsUpdateFailed: the update is applied without a policy *)
RlsUpdateFailedUnchecked(uid, id) ==
    [i \in DOMAIN table |->
        IF i = id THEN [table[i] EXCEPT !.status = "failed"] ELSE table[i]]

(* update({status: "failed"}).eq("id", id), as uid *)
RlsUpdateFailed(uid, id) ==
    [i \in DOMAIN table |->
        IF i \in RlsTargets("UPDATE", uid, id)
        THEN [table[i] EXCEPT !.status = "failed"]
        ELSE table[i]]

(* the mutant of ServiceUpdate: the update sets the status only *)
ServiceUpdateStatusOnly(id, image) ==
    [i \in DOMAIN table |->
        IF i = id THEN [table[i] EXCEPT !.status = "completed"] ELSE table[i]]

(* the service role bypasses row-level security:                           *)
(* update({image_url, status: "completed"}).eq("id", generationId)         *)
ServiceUpdate(id, image) ==
    [i \in DOMAIN table |->
        IF i = id
        THEN [table[i] EXCEPT !.image_url = image, !.status = "completed"]
        ELSE table[i]]

---------------------------------------------------------------------------
(* The Auth page *)

(* An email is modelled by whether z.string().email() accepts it and by    *)
(* its length, a password and a name by their length.                      *)
Emails ==
    {[wf |-> FALSE, len |-> 0], [wf |-> FALSE, len |-> 8], [wf |-> TRUE, len |-> 8],
     [wf |-> TRUE, len |-> 255], [wf |-> TRUE, len |-> 256],
     [wf |-> FALSE, len |-> 256]}
Passwords == {0, 5, 6, 100, 101}
Names == {0, 1, 2, 100, 101}

(* useState(true), useState(""), useState(""), useState(""), useState(false) *)
AuthMounted ==
    [isLogin |-> TRUE, email |-> [wf |-> FALSE, len |-> 0], password |-> 0,
     fullName |-> 0, loading |-> FALSE, msg |-> "none", pc |-> "idle"]

(* the issues a schema's parse reports, in the order of its checks *)
(* z.string().email("Invalid email address").max(255) *)
EmailIssues(e) ==
    (IF ~e.wf THEN <<"Invalid email address">> ELSE <<>>)
    \o (IF e.len > 255
        THEN <<"String must contain at most 255 character(s)">> ELSE <<>>)

(* z.string().min(6, "Password must be at least 6 characters").max(100) *)
PasswordIssues(p) ==
    (IF p < 6 THEN <<"Password must be at least 6 characters">> ELSE <<>>)
    \o (IF p > 100
        THEN <<"String must contain at most 100 character(s)">> ELSE <<>>)

(* z.string().min(2, "Name must be at least 2 characters").max(100) *)
NameIssues(n) ==
    (IF n < 2 THEN <<"Name must be at least 2 characters">> ELSE <<>>)
    \o (IF n > 100
        THEN <<"String must contain at most 100 character(s)">> ELSE <<>>)

(* the mutant of ValidationIssues: the password is parsed before the email *)
ValidationIssuesPasswordFirst(a) ==
    IF PasswordIssues(a.password) # <<>> THEN PasswordIssues(a.password)
    ELSE IF EmailIssues(a.email) # <<>> THEN EmailIssues(a.email)
    ELSE IF ~a.isLogin THEN NameIssues(a.fullName)
    ELSE <<>>

(* emailSchema.parse(email); passwordSchema.parse(password);               *)
(* if (!isLogin) nameSchema.parse(fullName): the errors of the ZodError    *)
(* the first failing parse throws                                          *)
ValidationIssues(a) ==
    IF EmailIssues(a.email) # <<>> THEN EmailIssues(a.email)
    ELSE IF PasswordIssues(a.password) # <<>> THEN PasswordIssues(a.password)
    ELSE IF ~a.isLogin THEN NameIssues(a.fullName)
    ELSE <<>>

---------------------------------------------------------------------------
(* State after the page is mounted for each signed-in user: an empty table, *)
(* an idle form, and the gallery's first fetch (useEffect on mount) sent.   *)
Init ==
    /\ table = [i \in {} |-> 0]
    /\ nextId = 1
    /\ form = [u \in Users |-> FormMounted]
    /\ toast = [u \in Users |-> "none"]
    /\ handlers = <<>>
    /\ invs = <<>>
    /\ refreshKey = [u \in Users |-> 0]
    /\ view = [u \in Users |-> <<>>]
    /\ galLoading = [u \in Users |-> TRUE]
    /\ fetches = {[user |-> u, key |-> 0, data |-> "sent"] : u \in Visitors}
    /\ deletes = {}
    /\ auth = AuthMounted

---------------------------------------------------------------------------
(* GenerationForm *)

(* onChange={(e) => setPrompt(e.target.value)}, disabled={loading} *)
SetPrompt(u, p) ==
    /\ ~form[u].loading
    /\ form[u].prompt # p
    /\ form' = [form EXCEPT ![u].prompt = p]
    /\ UNCHANGED auth
    /\ UNCHANGED <<table, nextId, toast, handlers, invs, refreshKey, view,
                   galLoading, fetches, deletes>>

(* handleImageUpload: a file is picked in the file input (disabled while   *)
(* loading; picking the file the input already holds is no change event)   *)
SelectFile(u, file) ==
    /\ ~form[u].loading
    /\ file # form[u].file
    /\ IF file.type \notin ValidTypes \/ TooBig(file)
       THEN /\ toast' = [toast EXCEPT ![u] = "error"]
            /\ form' = [form EXCEPT ![u].file = file]
       ELSE /\ Cardinality(form[u].reads) < MaxReads
            /\ form' = [form EXCEPT ![u].file = file,
                                    ![u].reads = @ \cup {file}]
            /\ UNCHANGED toast
    /\ UNCHANGED auth
    /\ UNCHANGED <<table, nextId, handlers, invs, refreshKey, view,
                   galLoading, fetches, deletes>>

(* reader.onloadend: the read of a file has ended, with the data URL or,   *)
(* after an error of the read, with a null result                          *)
ReaderLoadEnd(u, file) ==
    /\ file \in form[u].reads
    /\ \E ok \in BOOLEAN :
         form' = [form EXCEPT
                    ![u].uploadedImage = IF ok THEN DataUrl(file) ELSE NULL,
                    ![u].uploadedFileName = <<file.name>>,
                    ![u].reads = @ \ {file}]
    /\ toast' = [toast EXCEPT ![u] = "success"]
    /\ UNCHANGED auth
    /\ UNCHANGED <<table, nextId, handlers, invs, refreshKey, view,
                   galLoading, fetches, deletes>>

(* handleRemoveImage: the button is rendered while uploadedImage is set,   *)
(* disabled={loading}                                                      *)
RemoveImage(u) ==
    /\ ~form[u].loading
    /\ form[u].uploadedImage # NULL
    /\ form' = [form EXCEPT ![u].uploadedImage = NULL,
                            ![u].uploadedFileName = NULL]
    /\ UNCHANGED auth
    /\ UNCHANGED <<table, nextId, toast, handlers, invs, refreshKey, view,
                   galLoading, fetches, deletes>>

(* the mutant of SubmitEnabled: the submit control is never disabled *)
SubmitAlwaysEnabled(u) == TRUE

(* <Button type="submit" disabled={loading}> *)
SubmitEnabled(u) == ~form[u].loading

(* handleGenerate up to its first await *)
Submit(u) ==
    /\ SubmitEnabled(u)
    /\ IF ~PromptOk(form[u].prompt)
       THEN /\ toast' = [toast EXCEPT ![u] = "error"]
            /\ UNCHANGED <<form, handlers>>
       ELSE /\ Len(handlers) < MaxSubmits
            /\ form' = [form EXCEPT ![u].loading = TRUE]
            /\ handlers' = Append(handlers,
                   [form |-> u, pc |-> "getUser", prompt |-> form[u].prompt,
                    image |-> form[u].uploadedImage,
                    user |-> NoUser, gen |-> 0, inv |-> 0, ferr |-> FALSE])
            /\ UNCHANGED toast
    /\ UNCHANGED auth
    /\ UNCHANGED <<table, nextId, invs, refreshKey, view, galLoading,
                   fetches, deletes>>

(* the mutant of Finish: the handler returns without the finally *)
FinishSkipped(h) == form

(* finally { setLoading(false) } *)
Finish(h) == [form EXCEPT ![handlers[h].form].loading = FALSE]

(* a handleGenerate call that has returned: its locals are gone *)
Returned(h) ==
    [form |-> handlers[h].form, pc |-> "done", prompt |-> <<>>,
     image |-> NULL, user |-> NoUser, gen |-> 0, inv |-> 0, ferr |-> FALSE]

(* const { data: { user } } = await supabase.auth.getUser() *)
GetUserReturn(h) ==
    /\ h \in DOMAIN handlers
    /\ handlers[h].pc = "getUser"
    /\ \E user \in {handlers[h].form, NoUser} :
         IF user = NoUser
         THEN /\ toast' = [toast EXCEPT ![handlers[h].form] = "error"]
              /\ form' = Finish(h)
              /\ handlers' = [handlers EXCEPT ![h] = Returned(h)]
         ELSE /\ handlers' = [handlers EXCEPT ![h].pc = "insert", ![h].user = user]
              /\ UNCHANGED <<toast, form>>
    /\ UNCHANGED auth
    /\ UNCHANGED <<table, nextId, invs, refreshKey, view, galLoading,
                   fetches, deletes>>

(* the row of insert({user_id, prompt: prompt.trim(), style, status: "pending"}) *)
NewRow(h) ==
    [user_id |-> handlers[h].user, prompt |-> Trim(handlers[h].prompt),
     image_url |-> NULL, status |-> "pending"]

(* a request to the generate-image function, as the function receives it;  *)
(* uploadedImage is the image of the request body (NULL if it has none);   *)
(* outcome, modelCalls, writes, prev and resp record what the invocation    *)
(* did: the result of the gateway call, the number of gateway calls and of  *)
(* table updates, the status its update found, and the response status      *)
NewInvocation(caller, gid, paramsOk, h, uploadedImage) ==
    [caller |-> caller, gid |-> gid, paramsOk |-> paramsOk, handler |-> h,
     uploadedImage |-> uploadedImage,
     pc |-> "start", outcome |-> "none", modelCalls |-> 0, writes |-> 0,
     prev |-> "none", resp |-> 0]

(* the insert of the pending record, and on its success the call of the     *)
(* edge function                                                            *)
InsertReturn(h) ==
    /\ h \in DOMAIN handlers
    /\ handlers[h].pc = "insert"
    /\ LET u == handlers[h].form
           row == NewRow(h)
       IN \E insertError \in BOOLEAN :
            IF insertError \/ ~RlsAllows("INSERT", u, row)
            THEN /\ toast' = [toast EXCEPT ![u] = "error"]
                 /\ form' = Finish(h)
                 /\ handlers' = [handlers EXCEPT ![h] = Returned(h)]
                 /\ UNCHANGED <<table, nextId, invs>>
            ELSE /\ nextId <= MaxGens
                 /\ Len(invs) < MaxInvocations
                 /\ table' = [i \in DOMAIN table \cup {nextId} |->
                                 IF i = nextId THEN row ELSE table[i]]
                 /\ nextId' = nextId + 1
                 /\ invs' = Append(invs, NewInvocation(u, nextId, TRUE, h,
                                                           handlers[h].image))
                 /\ handlers' = [handlers EXCEPT ![h].pc = "invoke",
                                                 ![h].gen = nextId,
                                                 ![h].inv = Len(invs) + 1]
                 /\ UNCHANGED <<toast, form>>
    /\ UNCHANGED auth
    /\ UNCHANGED <<refreshKey, view, galLoading, fetches, deletes>>

(* the mutant of ClientSetsFailed: the follow-up update is issued whatever  *)
(* the call returned                                                        *)
ClientSetsFailedAlways(functionError) == TRUE

(* if (functionError) { ... update({ status: "failed" }) ... return; } *)
ClientSetsFailed(functionError) == functionError

(* the effect of GenerationGallery on a new refresh value *)
StartFetch(u, key) == fetches \cup {[user |-> u, key |-> key, data |-> "sent"]}

(* functions.invoke returns: the function's response, or no response at    *)
(* all (the connection failed), which is a functionError too               *)
InvokeReturn(h) ==
    /\ h \in DOMAIN handlers
    /\ handlers[h].pc = "invoke"
    /\ LET u == handlers[h].form
           i == handlers[h].inv
       IN \E lost \in BOOLEAN :
            /\ lost \/ invs[i].pc = "done"
            /\ LET functionError == lost \/ invs[i].resp # 200
               IN IF ClientSetsFailed(functionError)
                  THEN /\ toast' = [toast EXCEPT ![u] = "error"]
                       /\ handlers' = [handlers EXCEPT ![h].pc = "markFailed",
                                                       ![h].ferr = functionError]
                       /\ UNCHANGED <<form, refreshKey, fetches>>
                  ELSE /\ toast' = [toast EXCEPT ![u] = "success"]
                       /\ form' = [form EXCEPT ![u].prompt = <<>>,
                                               ![u].uploadedImage = NULL,
                                               ![u].uploadedFileName = NULL,
                                               ![u].loading = FALSE]
                       /\ refreshKey' = [refreshKey EXCEPT ![u] = @ + 1]
                       /\ fetches' = StartFetch(u, refreshKey[u] + 1)
                       /\ handlers' = [handlers EXCEPT ![h] = Returned(h)]
    /\ UNCHANGED auth
    /\ UNCHANGED <<table, nextId, invs, view, galLoading, deletes>>

(* await supabase.from("generations").update({ status: "failed" })         *)
(*   .eq("id", generation.id); return; finally { setLoading(false) }       *)
MarkFailedReturn(h) ==
    /\ h \in DOMAIN handlers
    /\ handlers[h].pc = "markFailed"
    /\ table' = RlsUpdateFailed(handlers[h].form, handlers[h].gen)
    /\ form' = Finish(h)
    /\ handlers' = [handlers EXCEPT ![h] = Returned(h)]
    /\ UNCHANGED auth
    /\ UNCHANGED <<nextId, toast, invs, refreshKey, view, galLoading,
                   fetches, deletes>>

---------------------------------------------------------------------------
(* The generate-image edge function *)

(* what the call of the AI gateway can give: a response with an image, a    *)
(* 2xx response without one, status 429, 402 or another non-2xx status, or  *)
(* a thrown network error                                                   *)
Upstream == {"image", "noimage", "s429", "s402", "s500", "neterr"}

(* any caller of the function endpoint: a request naming generation gid,    *)
(* with its parameters present or not                                       *)
DirectInvoke(u, gid, paramsOk) ==
    /\ Len(invs) < MaxInvocations
    /\ gid \in 1..(nextId - 1)
    /\ invs' = Append(invs, NewInvocation(u, gid, paramsOk, 0, NULL))
    /\ UNCHANGED auth
    /\ UNCHANGED <<table, nextId, form, toast, handlers, refreshKey, view,
                   galLoading, fetches, deletes>>

(* the mutant of ErrorStatus: every failure is answered with status 500 *)
ErrorStatusAll500(outcome) == 500

(* the status of the error response for a failed call of the gateway *)
ErrorStatus(outcome) ==
    IF outcome = "s429" THEN 429
    ELSE IF outcome = "s402" THEN 402
    ELSE 500

(* the mutant of FailureWrites: a failed call updates the record as well *)
FailureWritesRecorded(w) == w + 1

(* the number of table updates issued, after a call of the gateway that     *)
(* gave no image: the function returns or throws before the update          *)
FailureWrites(w) == w

(* serve, from the parse of the request to the result of the fetch *)
OrchCallModel(i) ==
    /\ i \in DOMAIN invs
    /\ invs[i].pc = "start"
    /\ IF ~invs[i].paramsOk
       THEN invs' = [invs EXCEPT ![i].pc = "done", ![i].outcome = "badparams",
                                 ![i].writes = FailureWrites(@),
                                 ![i].resp = 500]
       ELSE \E outcome \in Upstream :
              IF outcome = "image"
              THEN invs' = [invs EXCEPT ![i].pc = "update",
                                        ![i].outcome = outcome,
                                        ![i].modelCalls = @ + 1]
              ELSE invs' = [invs EXCEPT ![i].pc = "done",
                                        ![i].outcome = outcome,
                                        ![i].modelCalls = @ + 1,
                                        ![i].writes = FailureWrites(@),
                                        ![i].resp = ErrorStatus(outcome)]
    /\ UNCHANGED auth
    /\ UNCHANGED <<table, nextId, form, toast, handlers, refreshKey, view,
                   galLoading, fetches, deletes>>

(* the status the row named by id has before a write *)
StatusOf(id) == IF id \in DOMAIN table THEN table[id].status ELSE "absent"

(* serve, the update of the record with the service role and the response *)
OrchUpdate(i) ==
    /\ i \in DOMAIN invs
    /\ invs[i].pc = "update"
    /\ \E updateError \in BOOLEAN :
         IF updateError
         THEN /\ invs' = [invs EXCEPT ![i].pc = "done", ![i].writes = @ + 1,
                                      ![i].prev = "error", ![i].resp = 500]
              /\ UNCHANGED table
         ELSE /\ table' = ServiceUpdate(invs[i].gid, ImageOf(i))
              /\ invs' = [invs EXCEPT ![i].pc = "done", ![i].writes = @ + 1,
                                      ![i].prev = StatusOf(invs[i].gid),
                                      ![i].resp = 200]
    /\ UNCHANGED auth
    /\ UNCHANGED <<nextId, form, toast, handlers, refreshKey, view,
                   galLoading, fetches, deletes>>

---------------------------------------------------------------------------
(* The Request Store API, called directly by a signed-in user *)

ApiDelete(u, id) ==
    /\ id \in 1..(nextId - 1)
    /\ table' = RlsDelete(u, id)
    /\ UNCHANGED auth
    /\ UNCHANGED <<nextId, form, toast, handlers, invs, refreshKey, view,
                   galLoading, fetches, deletes>>

ApiUpdate(u, id) ==
    /\ id \in 1..(nextId - 1)
    /\ table' = RlsUpdateFailed(u, id)
    /\ UNCHANGED auth
    /\ UNCHANGED <<nextId, form, toast, handlers, invs, refreshKey, view,
                   galLoading, fetches, deletes>>

---------------------------------------------------------------------------
(* Index and GenerationGallery *)

(* the Refresh button: setRefreshKey(prev => prev + 1) *)
RefreshClick(u) ==
    /\ refreshKey[u] < MaxRefresh
    /\ refreshKey' = [refreshKey EXCEPT ![u] = @ + 1]
    /\ fetches' = StartFetch(u, refreshKey[u] + 1)
    /\ UNCHANGED auth
    /\ UNCHANGED <<table, nextId, form, toast, handlers, invs, view,
                   galLoading, deletes>>

(* fetchGenerations: the select runs in the store *)
FetchQuery(f) ==
    /\ f \in fetches
    /\ f.data = "sent"
    /\ \E error \in BOOLEAN :
         fetches' = (fetches \ {f}) \cup
              {[f EXCEPT !.data = IF error THEN "error" ELSE Select(f.user)]}
    /\ UNCHANGED auth
    /\ UNCHANGED <<table, nextId, form, toast, handlers, invs, refreshKey,
                   view, galLoading, deletes>>

(* fetchGenerations: the select returns *)
FetchReturn(f) ==
    /\ f \in fetches
    /\ f.data # "sent"
    /\ IF f.data = "error"
       THEN /\ toast' = [toast EXCEPT ![f.user] = "error"]
            /\ UNCHANGED view
       ELSE /\ view' = [view EXCEPT ![f.user] = f.data]
            /\ UNCHANGED toast
    /\ galLoading' = [galLoading EXCEPT ![f.user] = FALSE]
    /\ fetches' = fetches \ {f}
    /\ UNCHANGED auth
    /\ UNCHANGED <<table, nextId, form, handlers, invs, refreshKey, deletes>>

(* the rows of the view with a delete control: neither pending nor failed, *)
(* and with an image                                                        *)
HasDeleteButton(g) ==
    g.status # "pending" /\ g.status # "failed" /\ g.image_url # NULL

RECURSIVE WithoutId(_, _)
(* generations.filter(g => g.id !== id) *)
WithoutId(s, id) ==
    IF s = <<>> THEN <<>>
    ELSE IF Head(s).id # id THEN <<Head(s)>> \o WithoutId(Tail(s), id)
         ELSE WithoutId(Tail(s), id)

(* onClick={() => handleDelete(generation.id)}: the handler of the current *)
(* render, which holds that render's generations                           *)
DeleteClick(u, k) ==
    /\ Cardinality(deletes) < MaxDeletes
    /\ ~galLoading[u]
    /\ k \in DOMAIN view[u]
    /\ HasDeleteButton(view[u][k])
    /\ deletes' = deletes \cup
         {[user |-> u, id |-> view[u][k].id, captured |-> view[u]]}
    /\ UNCHANGED auth
    /\ UNCHANGED <<table, nextId, form, toast, handlers, invs, refreshKey,
                   view, galLoading, fetches>>

(* handleDelete after its await *)
DeleteReturn(d) ==
    /\ d \in deletes
    /\ \E error \in BOOLEAN :
         IF error
         THEN /\ toast' = [toast EXCEPT ![d.user] = "error"]
              /\ UNCHANGED <<table, view>>
         ELSE /\ table' = RlsDelete(d.user, d.id)
              /\ view' = [view EXCEPT ![d.user] = WithoutId(d.captured, d.id)]
              /\ toast' = [toast EXCEPT ![d.user] = "success"]
    /\ deletes' = deletes \ {d}
    /\ UNCHANGED auth
    /\ UNCHANGED <<nextId, form, handlers, invs, refreshKey, galLoading,
                   fetches>>

---------------------------------------------------------------------------
(* The submission lifecycle: the form, function invocations, direct API    *)
(* calls.                                                                  *)
Next ==
    \/ \E u \in Visitors, p \in Prompts : SetPrompt(u, p)
    \/ \E u \in Visitors : Submit(u)
    \/ \E h \in 1..MaxSubmits : GetUserReturn(h)
    \/ \E h \in 1..MaxSubmits : InsertReturn(h)
    \/ \E h \in 1..MaxSubmits : InvokeReturn(h)
    \/ \E h \in 1..MaxSubmits : MarkFailedReturn(h)
    \/ \E u \in Users, gid \in 1..MaxGens, ok \in BOOLEAN : DirectInvoke(u, gid, ok)
    \/ \E i \in 1..MaxInvocations : OrchCallModel(i)
    \/ \E i \in 1..MaxInvocations : OrchUpdate(i)
    \/ \E u \in Users, id \in 1..MaxGens : ApiDelete(u, id)
    \/ \E u \in Users, id \in 1..MaxGens : ApiUpdate(u, id)

Spec == Init /\ [][Next]_vars

---------------------------------------------------------------------------
(* The gallery over a table that earlier sessions have filled: the page is *)
(* loaded with up to MaxGens generations of either user in the table, each *)
(* pending or completed.                                                   *)
OldRows ==
    {[user_id |-> u, prompt |-> <<"a">>, image_url |-> NULL, status |-> "pending"] :
        u \in Users}
    \cup
    {[user_id |-> u, prompt |-> <<"a">>, image_url |-> ImageOf(0),
      status |-> "completed"] : u \in Users}

GalleryInit ==
    /\ \E n \in 0..MaxGens :
         /\ table \in [1..n -> OldRows]
         /\ nextId = n + 1
    /\ form = [u \in Users |-> FormMounted]
    /\ toast = [u \in Users |-> "none"]
    /\ handlers = <<>>
    /\ invs = <<>>
    /\ refreshKey = [u \in Users |-> 0]
    /\ view = [u \in Users |-> <<>>]
    /\ galLoading = [u \in Users |-> TRUE]
    /\ fetches = {[user |-> u, key |-> 0, data |-> "sent"] : u \in Visitors}
    /\ deletes = {}
    /\ auth = AuthMounted

GalleryNext ==
    \/ \E u \in Users, id \in 1..MaxGens : ApiDelete(u, id)
    \/ \E u \in Visitors : RefreshClick(u)
    \/ \E f \in fetches : FetchQuery(f)
    \/ \E f \in fetches : FetchReturn(f)
    \/ \E u \in Visitors, k \in 1..MaxGens : DeleteClick(u, k)
    \/ \E d \in deletes : DeleteReturn(d)

GallerySpec == GalleryInit /\ [][GalleryNext]_vars

---------------------------------------------------------------------------
(* The gallery alone: every row that leaves the table was deleted by the   *)
(* gallery's own handleDelete.                                             *)
GalleryAloneNext ==
    \/ \E u \in Visitors : RefreshClick(u)
    \/ \E f \in fetches : FetchQuery(f)
    \/ \E f \in fetches : FetchReturn(f)
    \/ \E u \in Visitors, k \in 1..MaxGens : DeleteClick(u, k)
    \/ \E d \in deletes : DeleteReturn(d)

GalleryAloneSpec == GalleryInit /\ [][GalleryAloneNext]_vars

---------------------------------------------------------------------------
(* The form with its file input: uploads and submissions, up to the call   *)
(* of the function and the client's handling of a call that failed.        *)
UploadNext ==
    \/ \E u \in Visitors, p \in Prompts : SetPrompt(u, p)
    \/ \E u \in Visitors, file \in Files : SelectFile(u, file)
    \/ \E u \in Visitors, file \in Files : ReaderLoadEnd(u, file)
    \/ \E u \in Visitors : RemoveImage(u)
    \/ \E u \in Visitors : Submit(u)
    \/ \E h \in 1..MaxSubmits : GetUserReturn(h)
    \/ \E h \in 1..MaxSubmits : InsertReturn(h)
    \/ \E h \in 1..MaxSubmits : InvokeReturn(h)
    \/ \E h \in 1..MaxSubmits : MarkFailedReturn(h)

UploadSpec == Init /\ [][UploadNext]_vars

---------------------------------------------------------------------------
(* The submissions of a form whose user has uploaded an image or has not,  *)
(* with every awaited call returning: the calls of getUser, of the insert, *)
(* of the function and of the follow-up update each return or throw.       *)
LiveInit ==
    /\ table = [i \in {} |-> 0]
    /\ nextId = 1
    /\ \E file \in {f \in Files \cup {NoFile} : f.type # "image/gif" /\ ~TooBig(f)} :
         form = [u \in Users |->
                   IF u \in Visitors /\ file # NoFile
                   THEN [FormMounted EXCEPT !.file = file,
                                            !.uploadedImage = DataUrl(file),
                                            !.uploadedFileName = <<file.name>>]
                   ELSE FormMounted]
    /\ toast = [u \in Users |-> "none"]
    /\ handlers = <<>>
    /\ invs = <<>>
    /\ refreshKey = [u \in Users |-> 0]
    /\ view = [u \in Users |-> <<>>]
    /\ galLoading = [u \in Users |-> TRUE]
    /\ fetches = {[user |-> u, key |-> 0, data |-> "sent"] : u \in Visitors}
    /\ deletes = {}
    /\ auth = AuthMounted

LiveNext ==
    \/ \E u \in Visitors, p \in Prompts : SetPrompt(u, p)
    \/ \E u \in Visitors : RemoveImage(u)
    \/ \E u \in Visitors : Submit(u)
    \/ \E h \in 1..MaxSubmits : GetUserReturn(h)
    \/ \E h \in 1..MaxSubmits : InsertReturn(h)
    \/ \E h \in 1..MaxSubmits : InvokeReturn(h)
    \/ \E h \in 1..MaxSubmits : MarkFailedReturn(h)
    \/ \E i \in 1..MaxInvocations : OrchCallModel(i)
    \/ \E i \in 1..MaxInvocations : OrchUpdate(i)

LiveSpec ==
    /\ LiveInit
    /\ [][LiveNext]_vars
    /\ \A h \in 1..MaxSubmits :
         /\ WF_vars(GetUserReturn(h))
         /\ WF_vars(InsertReturn(h))
         /\ WF_vars(InvokeReturn(h))
         /\ WF_vars(MarkFailedReturn(h))

---------------------------------------------------------------------------
(* The Auth page: its handlers *)

AuthFrame ==
    UNCHANGED <<table, nextId, form, toast, handlers, invs, refreshKey, view,
                galLoading, fetches, deletes>>

(* onChange={(e) => setEmail(e.target.value)} *)
SetEmail(e) ==
    /\ auth.email # e
    /\ auth' = [auth EXCEPT !.email = e]
    /\ AuthFrame

(* onChange={(e) => setPassword(e.target.value)} *)
SetPassword(p) ==
    /\ auth.password # p
    /\ auth' = [auth EXCEPT !.password = p]
    /\ AuthFrame

(* onChange={(e) => setFullName(e.target.value)}, rendered when !isLogin *)
SetFullName(n) ==
    /\ ~auth.isLogin
    /\ auth.fullName # n
    /\ auth' = [auth EXCEPT !.fullName = n]
    /\ AuthFrame

(* onClick={() => setIsLogin(!isLogin)} *)
ToggleMode ==
    /\ auth' = [auth EXCEPT !.isLogin = ~auth.isLogin]
    /\ AuthFrame

(* the form's own constraints: email and password are required, and the    *)
(* name is when it is rendered; the submit button is disabled={loading}    *)
AuthSubmitEnabled ==
    /\ ~auth.loading
    /\ auth.email.len > 0
    /\ auth.password > 0
    /\ ~auth.isLogin => auth.fullName > 0

(* handleSubmit up to its await: setLoading(true), the parses, and either  *)
(* the catch with toast.error(error.errors[0].message) and the finally, or *)
(* the call of signInWithPassword or signUp                                *)
AuthSubmit ==
    /\ AuthSubmitEnabled
    /\ LET issues == ValidationIssues(auth)
       IN IF issues # <<>>
          THEN auth' = [auth EXCEPT !.msg = issues[1], !.loading = FALSE]
          ELSE auth' = [auth EXCEPT !.loading = TRUE,
                                    !.pc = IF auth.isLogin THEN "signIn"
                                           ELSE "signUp"]
    /\ AuthFrame

(* what the awaited call gives: no error, the error the code names         *)
(* ("Invalid login credentials" / "already registered"), another error, or *)
(* a thrown exception                                                      *)
AuthResults == {"ok", "named", "other", "thrown"}

(* handleSubmit after its await, with the finally *)
AuthReturn(result) ==
    /\ auth.pc # "idle"
    /\ auth' = [auth EXCEPT
         !.msg = IF result = "thrown" THEN "An unexpected error occurred"
                 ELSE IF result = "other" THEN "error.message"
                 ELSE IF auth.pc = "signIn"
                      THEN (IF result = "ok" THEN "Welcome back!"
                            ELSE "Invalid email or password")
                      ELSE (IF result = "ok"
                            THEN "Account created! Welcome to Pixverse AI!"
                            ELSE "This email is already registered. Please sign in instead."),
         !.loading = FALSE,
         !.pc = "idle"]
    /\ AuthFrame

AuthNext ==
    \/ \E e \in Emails : SetEmail(e)
    \/ \E p \in Passwords : SetPassword(p)
    \/ \E n \in Names : SetFullName(n)
    \/ ToggleMode
    \/ AuthSubmit
    \/ \E result \in AuthResults : AuthReturn(result)

AuthSpec == Init /\ [][AuthNext]_vars

---------------------------------------------------------------------------
(* Properties *)

Terminal == {"completed", "failed"}
Done(i) == invs[i].pc = "done"

(* C1: every record is created pending, and a record's status changes only *)
(* from pending to completed or failed: a terminal status never changes,   *)
(* whatever submissions, invocations (repeated ones too) and follow-up     *)
(* updates happen.                                                         *)
C1_StatusChangesOnce ==
    [][/\ \A id \in DOMAIN table' \ DOMAIN table :
            id >= nextId /\ table'[id].status = "pending"
       /\ \A id \in DOMAIN table \cap DOMAIN table' :
            table'[id].status # table[id].status
              => table[id].status = "pending" /\ table'[id].status \in Terminal]_vars

(* A record completed by two invocations, whose client was told of a       *)
(* failure and has issued its follow-up update.                            *)
C1_Witness ==
    /\ Len(handlers) = 1
    /\ handlers[1].pc = "done"
    /\ refreshKey[handlers[1].form] = 0
    /\ 1 \in DOMAIN table
    /\ table[1].status = "completed"
    /\ \E i, j \in DOMAIN invs :
         /\ i # j
         /\ invs[i].gid = 1 /\ invs[j].gid = 1
         /\ invs[i].resp = 200 /\ invs[j].resp = 200

(* C2: an invocation that answers with the success response has moved the  *)
(* record named by generationId from pending to completed, also when the   *)
(* record was deleted or already terminal before the write.                *)
C2_SuccessMovesPendingRecord ==
    \A i \in DOMAIN invs : invs[i].resp = 200 => invs[i].prev = "pending"

(* C3: when the invocation for the record failed (here: it answered 429),  *)
(* the client's follow-up update leaves the pending record failed.         *)
C3_FollowUpLeavesFailed ==
    [][\A h \in DOMAIN handlers :
          ( /\ handlers[h].pc = "markFailed"
            /\ handlers'[h].pc = "done"
            /\ Done(handlers[h].inv)
            /\ invs[handlers[h].inv].resp = 429
            /\ handlers[h].gen \in DOMAIN table
            /\ table[handlers[h].gen].status = "pending" )
          => table'[handlers[h].gen].status = "failed"]_vars

(* C4: no operation of a user changes or removes a row of another user: an *)
(* update or delete through the API leaves it as it is, and an invocation  *)
(* naming it fails and leaves it as it is.                                 *)
C4_OthersCannotChangeRow ==
    /\ [](\A u \in Users : \A id \in DOMAIN table :
            table[id].user_id # u
              => RlsDelete(u, id) = table /\ RlsUpdateFailed(u, id) = table)
    /\ [][\A i \in DOMAIN invs :
            ( /\ invs[i].pc = "update"
              /\ invs'[i].pc = "done"
              /\ invs[i].gid \in DOMAIN table
              /\ table[invs[i].gid].user_id # invs[i].caller )
            => table' = table /\ invs'[i].resp # 200]_vars

(* C5: what a user's list returns, and what the gallery then shows, holds  *)
(* only generations of that user.                                          *)
C5_ListOnlyOwn ==
    /\ \A u \in Users : \A k \in DOMAIN view[u] : view[u][k].user_id = u
    /\ \A f \in fetches :
         (f.data # "sent" /\ f.data # "error")
           => \A k \in DOMAIN f.data : f.data[k].user_id = f.user

(* A user's gallery shows generations while the table holds a generation  *)
(* of the other user.                                                      *)
C5_Witness ==
    \E u \in Users :
      /\ view[u] # <<>>
      /\ \E id \in DOMAIN table : table[id].user_id # u

(* C6: a submission starts, creates a record and invokes the function only *)
(* with a prompt that is non-empty after trimming and with a current user; *)
(* with a blank prompt or without a user nothing is created or invoked and *)
(* an error is shown.                                                      *)
C6_SubmitValidation ==
    [][/\ \A h \in DOMAIN handlers' \ DOMAIN handlers :
            Trim(handlers'[h].prompt) # <<>>
       /\ \A id \in DOMAIN table' \ DOMAIN table :
            \E h \in DOMAIN handlers :
              /\ handlers[h].pc = "insert" /\ handlers'[h].gen = id
              /\ handlers[h].user \in Users
              /\ Trim(handlers[h].prompt) # <<>>
              /\ table'[id].prompt = Trim(handlers[h].prompt)
       /\ \A i \in DOMAIN invs' \ DOMAIN invs :
            invs'[i].handler # 0
              => /\ handlers[invs'[i].handler].user \in Users
                 /\ Trim(handlers[invs'[i].handler].prompt) # <<>>
                 /\ invs'[i].gid \in DOMAIN table' \ DOMAIN table
       /\ \A h \in DOMAIN handlers :
            (handlers[h].pc = "getUser" /\ handlers'[h].pc = "done")
              => /\ table' = table /\ invs' = invs
                 /\ toast'[handlers[h].form] = "error"
       /\ \A u \in Users :
            (Trim(form[u].prompt) = <<>> /\ ~form[u].loading /\ toast'[u] # toast[u])
              => /\ toast'[u] = "error"
                 /\ table' = table /\ invs' = invs /\ handlers' = handlers]_vars

(* A user whose record holds the trimmed prompt of an earlier submission   *)
(* was shown an error for a whitespace-only prompt, and that submission    *)
(* created nothing.                                                        *)
C6_Witness ==
    \E u \in Users :
      /\ form[u].prompt = <<" ">> /\ toast[u] = "error" /\ ~form[u].loading
      /\ Len(handlers) = 1 /\ handlers[1].form = u /\ handlers[1].pc = "done"
      /\ DOMAIN table = {1}
      /\ table[1].user_id = u /\ table[1].prompt = <<"a">>
      /\ table[1].status = "completed"

InFlight(u) ==
    {h \in DOMAIN handlers : handlers[h].form = u /\ handlers[h].pc # "done"}

(* C7: a form has at most one submission in flight, and it is loading      *)
(* exactly while one is.                                                   *)
C7_OneInFlight ==
    \A u \in Users :
      /\ Cardinality(InFlight(u)) <= 1
      /\ form[u].loading <=> InFlight(u) # {}

(* A second submission of a form waits for the function after the first    *)
(* one has returned.                                                       *)
C7_Witness ==
    \E h1, h2 \in DOMAIN handlers :
      /\ handlers[h1].form = handlers[h2].form
      /\ handlers[h1].pc = "done"
      /\ handlers[h2].pc = "invoke"

(* C8 as claimed: every invocation issues exactly one update of the table, *)
(* whatever its outcome.                                                   *)
C8_ExactlyOneWrite ==
    \A i \in DOMAIN invs : Done(i) => invs[i].writes = 1

(* C8 amended: an invocation issues at most one update: exactly one when   *)
(* an image was extracted, none on the failure outcomes.                   *)
C8_AtMostOneWrite ==
    \A i \in DOMAIN invs :
      /\ invs[i].writes <= 1
      /\ Done(i) => invs[i].writes = (IF invs[i].outcome = "image" THEN 1 ELSE 0)

(* One invocation failed on status 429 and another extracted an image.     *)
C8_Witness ==
    \E i, j \in DOMAIN invs :
      /\ Done(i) /\ invs[i].outcome = "s429"
      /\ Done(j) /\ invs[j].outcome = "image"

(* C9: the update to failed is issued only by the client, for its own      *)
(* record and after its call of the function returned an error; no step of *)
(* the function makes a record failed, and the function calls the gateway  *)
(* at most once.                                                           *)
C9_FailedOnlyByClient ==
    [][/\ \A h \in DOMAIN handlers' :
            handlers'[h].pc = "markFailed"
              => handlers'[h].ferr /\ handlers'[h].gen # 0
       /\ \A id \in DOMAIN table \cap DOMAIN table' :
            (table'[id].status = "failed" /\ table[id].status # "failed")
              => \E h \in DOMAIN handlers :
                   /\ handlers[h].pc = "markFailed" /\ handlers[h].gen = id
                   /\ handlers[h].ferr /\ handlers'[h].pc = "done"
       /\ (\E i \in DOMAIN invs : invs'[i] # invs[i])
            => \A id \in DOMAIN table' :
                 table'[id].status = "failed"
                   => id \in DOMAIN table /\ table[id].status = "failed"
       /\ \A i \in DOMAIN invs' : invs'[i].modelCalls <= 1]_vars

(* The function answered 429 after one call of the gateway, and the client *)
(* has issued its follow-up update and returned.                           *)
C9_Witness ==
    /\ Len(handlers) = 1
    /\ handlers[1].pc = "done"
    /\ refreshKey[handlers[1].form] = 0
    /\ 1 \in DOMAIN table
    /\ Len(invs) = 1
    /\ invs[1].resp = 429
    /\ invs[1].modelCalls = 1

(* C10: the response status follows the outcome of the gateway call: 429   *)
(* for 429, 402 for 402, 500 for every other failure (another status, no   *)
(* image, missing parameters, a failed update); the success response only  *)
(* with an image extracted and an update without error.                    *)
C10_ResponseStatus ==
    \A i \in DOMAIN invs :
      IF Done(i)
      THEN /\ invs[i].outcome = "s429" => invs[i].resp = 429
           /\ invs[i].outcome = "s402" => invs[i].resp = 402
           /\ invs[i].outcome \in {"s500", "neterr", "noimage", "badparams"}
                => invs[i].resp = 500
           /\ (invs[i].outcome = "image" /\ invs[i].prev = "error")
                => invs[i].resp = 500
           /\ invs[i].resp = 200
                <=> (invs[i].outcome = "image" /\ invs[i].prev # "error")
           /\ invs[i].resp \in {200, 429, 402, 500}
      ELSE invs[i].resp = 0

(* One invocation answered 402 for status 402, another 500 for a failed    *)
(* update.                                                                 *)
C10_Witness ==
    \E i, j \in DOMAIN invs :
      /\ Done(i) /\ invs[i].outcome = "s402" /\ invs[i].resp = 402
      /\ Done(j) /\ invs[j].outcome = "image" /\ invs[j].resp = 500

(* C11: a generation its owner has deleted is in no later list of that     *)
(* user: the owner's delete removes the row, an id that has left the table *)
(* never returns to it (whatever inserts, function updates and deletes     *)
(* follow), and a list holds only rows that are in the table.              *)
C11_DeletedStaysOffList ==
    /\ [](\A u \in Users : \A id \in DOMAIN table :
            table[id].user_id = u => id \notin DOMAIN RlsDelete(u, id))
    /\ [][\A id \in 1..(nextId - 1) :
            id \notin DOMAIN table => id \notin DOMAIN table']_vars
    /\ [](\A u \in Users : \A k \in DOMAIN Select(u) :
            Select(u)[k].id \in DOMAIN table)

(* The first generation was deleted, an invocation naming it has then      *)
(* issued its update and answered with success, and the user's list holds  *)
(* a later generation.                                                     *)
C11_Witness ==
    /\ 1 \notin DOMAIN table
    /\ \E i \in DOMAIN invs :
         invs[i].gid = 1 /\ invs[i].prev = "absent" /\ invs[i].resp = 200
    /\ \E u \in Users : Select(u) # <<>>

(* C12: every generation the gallery shows has a delete control, whatever  *)
(* its status.                                                             *)
C12_EveryShownRowDeletable ==
    \A u \in Visitors :
      ~galLoading[u] => \A k \in DOMAIN view[u] : HasDeleteButton(view[u][k])

InFlightFor(id) == {i \in DOMAIN invs : invs[i].gid = id /\ ~Done(i)}

(* C13: a pending record that no invocation in flight names stays pending  *)
(* as long as it exists: neither the client's follow-up update nor any     *)
(* other step moves it to completed or failed.                             *)
C13_OrphanStaysPending ==
    [][\A id \in DOMAIN table :
          (table[id].status = "pending" /\ InFlightFor(id) = {})
            => (id \in DOMAIN table' => table'[id].status = "pending")]_vars

(* The function has answered the client's call with an error, the client   *)
(* has not taken the answer, and the record is pending.                    *)
C13_Witness ==
    \E h \in DOMAIN handlers :
      /\ handlers[h].pc = "invoke"
      /\ Done(handlers[h].inv)
      /\ invs[handlers[h].inv].resp = 500
      /\ handlers[h].gen \in DOMAIN table
      /\ table[handlers[h].gen].status = "pending"
      /\ InFlightFor(handlers[h].gen) = {}

(* C16: a record has an image exactly if it is completed.                  *)
C16_ImageIffCompleted ==
    \A id \in DOMAIN table :
      table[id].image_url # NULL <=> table[id].status = "completed"

(* After two submissions, one answered with success and one whose answer   *)
(* was an error or lost, one record is completed and one is pending.       *)
C16_Witness ==
    /\ Len(handlers) = 2
    /\ \A h \in DOMAIN handlers : handlers[h].pc = "done"
    /\ DOMAIN table = {1, 2}
    /\ \E id, jd \in DOMAIN table :
         /\ table[id].status = "completed" /\ table[id].image_url # NULL
         /\ table[jd].status = "pending" /\ table[jd].image_url = NULL

(* C18: once every fetch and delete of a gallery has completed, its view   *)
(* holds no generation that has left the table.                            *)
C18_DeletedNotInView ==
    \A u \in Visitors :
      ( /\ {f \in fetches : f.user = u} = {}
        /\ {d \in deletes : d.user = u} = {} )
      => \A k \in DOMAIN view[u] : view[u][k].id \in DOMAIN table

(* C14: a submit of the auth form with a violated rule shows a message of  *)
(* the first violated rule in the order email (well-formed, at most 255),  *)
(* password (6 to 100), name (2 to 100, sign-up only), calls neither       *)
(* sign-in nor sign-up and leaves loading false; a submit with no rule     *)
(* violated calls sign-in or sign-up.                                      *)
C14_FirstViolatedRule ==
    [][( /\ auth.pc = "idle"
         /\ auth' # auth
         /\ auth'.email = auth.email /\ auth'.password = auth.password
         /\ auth'.fullName = auth.fullName /\ auth'.isLogin = auth.isLogin )
       => LET emailBad == ~auth.email.wf \/ auth.email.len > 255
              passwordBad == auth.password < 6 \/ auth.password > 100
              nameBad == ~auth.isLogin
                           /\ (auth.fullName < 2 \/ auth.fullName > 100)
              rejected == auth'.pc = "idle" /\ ~auth'.loading
          IN IF emailBad
             THEN /\ rejected
                  /\ auth'.msg \in {"Invalid email address",
                                    "String must contain at most 255 character(s)"}
             ELSE IF passwordBad
             THEN /\ rejected
                  /\ auth'.msg \in {"Password must be at least 6 characters",
                                    "String must contain at most 100 character(s)"}
             ELSE IF nameBad
             THEN /\ rejected
                  /\ auth'.msg \in {"Name must be at least 2 characters",
                                    "String must contain at most 100 character(s)"}
             ELSE auth'.pc = (IF auth.isLogin THEN "signIn" ELSE "signUp")]_vars

(* In sign-up mode, with an accepted email, a password of 5 characters and *)
(* a name of 1 character, the password's message is shown and no call is   *)
(* in flight.                                                              *)
C14_Witness ==
    /\ ~auth.isLogin
    /\ auth.email = [wf |-> TRUE, len |-> 255]
    /\ auth.password = 5
    /\ auth.fullName = 1
    /\ auth.msg = "Password must be at least 6 characters"
    /\ auth.pc = "idle" /\ ~auth.loading

(* C15: picking a file whose type is not jpeg, jpg, png or webp, or whose  *)
(* size is above 10 MiB, shows an error, starts no read and no call and    *)
(* leaves the uploaded image and file name as they are; picking another    *)
(* file (one of exactly 10 MiB too) starts its read; and the image a       *)
(* submission carries is never that of a rejected file.                    *)
C15_RejectedFileLeavesNoTrace ==
    /\ [][\A u \in Visitors :
            form'[u].file # form[u].file
              => IF \/ form'[u].file.type \notin
                          {"image/jpeg", "image/jpg", "image/png", "image/webp"}
                    \/ form'[u].file.size > 10485760
                 THEN /\ form'[u].uploadedImage = form[u].uploadedImage
                      /\ form'[u].uploadedFileName = form[u].uploadedFileName
                      /\ form'[u].reads = form[u].reads
                      /\ toast'[u] = "error"
                      /\ table' = table /\ handlers' = handlers
                      /\ invs' = invs /\ fetches' = fetches
                 ELSE form'[u].reads = form[u].reads \cup {form'[u].file}]_vars
    /\ [](\A h \in DOMAIN handlers : \A i \in DOMAIN invs :
            \A img \in {handlers[h].image, invs[i].uploadedImage} :
              img # NULL
                => \E file \in Files :
                     /\ img = <<file.name>>
                     /\ file.type # "image/gif" /\ file.size <= 10485760)

(* The file of exactly 10 MiB was uploaded, the oversized file was then    *)
(* picked, and a submission after that has called the function with the    *)
(* image of the first file.                                                *)
C15_Witness ==
    \E u \in Visitors :
      /\ form[u].file.name = "f.png"
      /\ form[u].uploadedFileName = <<"a.jpeg">>
      /\ \E i \in DOMAIN invs : invs[i].uploadedImage = <<"a.jpeg">>

Succeeds(h) ==
    /\ handlers[h].pc = "invoke"
    /\ handlers'[h].pc = "done"
    /\ Done(handlers[h].inv)
    /\ invs[handlers[h].inv].resp = 200

(* C17: a form that is loading eventually is not, given that every awaited *)
(* call returns; a submission that ends otherwise than by the success      *)
(* response leaves the prompt, the uploaded image and the refresh signal   *)
(* as they are, and one that ends by it clears the prompt and the image    *)
(* and increments the refresh signal.                                      *)
C17_SubmissionReturnsToIdle ==
    /\ \A u \in Visitors : form[u].loading ~> ~form[u].loading
    /\ [][\A h \in DOMAIN handlers :
            (handlers[h].pc # "done" /\ handlers'[h].pc = "done")
              => LET u == handlers[h].form
                 IN /\ ~form'[u].loading
                    /\ IF Succeeds(h)
                       THEN /\ form'[u].prompt = <<>>
                            /\ form'[u].uploadedImage = NULL
                            /\ form'[u].uploadedFileName = NULL
                            /\ refreshKey'[u] = refreshKey[u] + 1
                       ELSE /\ form'[u].prompt = form[u].prompt
                            /\ form'[u].prompt # <<>>
                            /\ form'[u].uploadedImage = form[u].uploadedImage
                            /\ form'[u].uploadedFileName = form[u].uploadedFileName
                            /\ refreshKey'[u] = refreshKey[u]]_vars
    /\ [][\A u \in Visitors :
            (form[u].loading /\ form'[u] # form[u])
              => \E h \in DOMAIN handlers :
                   handlers[h].form = u /\ handlers'[h].pc = "done"]_vars

(* A submission with an uploaded image ended without success and left the  *)
(* image in the form, and a later one ended with success and cleared it.   *)
C17_Witness ==
    \E u \in Visitors :
      /\ Len(handlers) = 2
      /\ \A h \in DOMAIN handlers : handlers[h].pc = "done" /\ handlers[h].form = u
      /\ ~form[u].loading
      /\ form[u].uploadedImage = NULL /\ form[u].file # NoFile
      /\ refreshKey[u] = 1
      /\ \E i \in DOMAIN invs : invs[i].uploadedImage # NULL /\ invs[i].resp = 200
      /\ \E i \in DOMAIN invs : invs[i].uploadedImage # NULL /\ invs[i].resp = 429

====
